---- MODULE Spec2Model ----
(***************************************************************************)
(* A model of ikonik's generator (scripts/generate.ts): generate(opts)     *)
(* turns a directory of SVG files into React component files, a barrel     *)
(* index.ts and a metadata.json.                                           *)
(*                                                                         *)
(* Text is modelled as a sequence of one-character strings, so that        *)
(* includes, split, basename, pascalCase and the regular expressions of    *)
(* the source are computed character by character.  A few elements are     *)
(* longer strings: they stand for a stretch of text that none of the       *)
(* patterns of the source looks into (a directory name, a fixed message    *)
(* prefix, an attribute svgo removes).                                     *)
(***************************************************************************)
EXTENDS Integers, Sequences, FiniteSets, TLC

\* The longest enumeration result (globby's list) the model explores.
MaxFiles == 2

-----------------------------------------------------------------------------
(* Characters *)

LowerSeq ==
  <<"a","b","c","d","e","f","g","h","i","j","k","l","m",
    "n","o","p","q","r","s","t","u","v","w","x","y","z">>
UpperSeq ==
  <<"A","B","C","D","E","F","G","H","I","J","K","L","M",
    "N","O","P","Q","R","S","T","U","V","W","X","Y","Z">>
DigitChars == {"0","1","2","3","4","5","6","7","8","9"}

IsLower(c) == \E i \in 1..26 : LowerSeq[i] = c
IsUpper(c) == \E i \in 1..26 : UpperSeq[i] = c
IsDigit(c) == c \in DigitChars
IsAlnum(c) == IsLower(c) \/ IsUpper(c) \/ IsDigit(c)
IsSpace(c) == c \in {" ", "\n", "\t"}

toUpperCase(c) ==
  IF IsLower(c) THEN UpperSeq[CHOOSE i \in 1..26 : LowerSeq[i] = c] ELSE c
toLowerCase(c) ==
  IF IsUpper(c) THEN LowerSeq[CHOOSE i \in 1..26 : UpperSeq[i] = c] ELSE c

-----------------------------------------------------------------------------
(* String operations of the JavaScript runtime used by generate *)

\* s.startsWith(sub, i): sub occurs in s at position i (1-based).
OccursAt(s, sub, i) ==
  /\ i >= 1
  /\ i + Len(sub) - 1 <= Len(s)
  /\ SubSeq(s, i, i + Len(sub) - 1) = sub

\* String.prototype.includes
Includes(s, sub) == \E i \in 1..(Len(s) + 1) : OccursAt(s, sub, i)

\* A split that drops the empty tokens.
RECURSIVE SplitNonEmpty(_, _)
SplitNonEmpty(s, sep) ==
  IF \A i \in 1..Len(s) : s[i] # sep
    THEN IF s = <<>> THEN <<>> ELSE <<s>>
    ELSE LET k == CHOOSE i \in 1..Len(s) :
                    s[i] = sep /\ \A j \in 1..(i - 1) : s[j] # sep
             head == SubSeq(s, 1, k - 1)
         IN  (IF head = <<>> THEN <<>> ELSE <<head>>)
               \o SplitNonEmpty(SubSeq(s, k + 1, Len(s)), sep)

\* String.prototype.split with a one-character separator: every separator
\* ends a token, so consecutive separators give empty tokens.
RECURSIVE Split(_, _)
Split(s, sep) ==
  IF \A i \in 1..Len(s) : s[i] # sep
    THEN <<s>>
    ELSE LET k == CHOOSE i \in 1..Len(s) :
                    s[i] = sep /\ \A j \in 1..(i - 1) : s[j] # sep
         IN  <<SubSeq(s, 1, k - 1)>> \o Split(SubSeq(s, k + 1, Len(s)), sep)

\* String.prototype.trim
RECURSIVE Trim(_)
Trim(s) ==
  IF s = <<>> THEN s
  ELSE IF IsSpace(s[1]) THEN Trim(Tail(s))
  ELSE IF IsSpace(s[Len(s)]) THEN Trim(SubSeq(s, 1, Len(s) - 1))
  ELSE s

\* path.join(dir, name) for a directory kept as one element.
PathJoin(dir, name) == <<dir, "/">> \o name

\* path.basename(p, ext): the last segment of p, without ext when the
\* segment ends with ext and is longer than it.
Basename(p, ext) ==
  LET slashes == {i \in 1..Len(p) : p[i] = "/"}
      from == IF slashes = {} THEN 1
              ELSE 1 + CHOOSE i \in slashes : \A j \in slashes : j <= i
      seg == SubSeq(p, from, Len(p))
  IN  IF Len(seg) > Len(ext) /\ OccursAt(seg, ext, Len(seg) - Len(ext) + 1)
        THEN SubSeq(seg, 1, Len(seg) - Len(ext))
        ELSE seg

-----------------------------------------------------------------------------
(* pascalCase of change-case, as generate calls it (no options) *)

\* A word boundary falls before s[i]: lower-or-digit followed by upper, or
\* upper followed by upper-then-lower.
BoundaryBefore(s, i) ==
  /\ i > 1
  /\ \/ (IsLower(s[i - 1]) \/ IsDigit(s[i - 1])) /\ IsUpper(s[i])
     \/ /\ IsUpper(s[i - 1])
        /\ IsUpper(s[i])
        /\ i < Len(s)
        /\ IsLower(s[i + 1])

\* The words of s: maximal runs of letters and digits, cut at boundaries.
RECURSIVE SplitWords(_, _, _, _)
SplitWords(s, i, cur, acc) ==
  IF i > Len(s)
    THEN IF cur = <<>> THEN acc ELSE Append(acc, cur)
  ELSE IF ~IsAlnum(s[i])
    THEN SplitWords(s, i + 1, <<>>, IF cur = <<>> THEN acc ELSE Append(acc, cur))
  ELSE IF cur # <<>> /\ BoundaryBefore(s, i)
    THEN SplitWords(s, i + 1, <<s[i]>>, Append(acc, cur))
  ELSE SplitWords(s, i + 1, Append(cur, s[i]), acc)

\* One word in pascal case: first character upper (a leading digit of a
\* later word gets an underscore), the rest lower.
PascalWord(word, index) ==
  LET initial == IF index > 1 /\ IsDigit(word[1])
                   THEN <<"_", word[1]>>
                   ELSE <<toUpperCase(word[1])>>
  IN  initial \o [k \in 1..(Len(word) - 1) |-> toLowerCase(word[k + 1])]

RECURSIVE ConcatWords(_, _)
ConcatWords(words, index) ==
  IF index > Len(words) THEN <<>>
  ELSE PascalWord(words[index], index) \o ConcatWords(words, index + 1)

pascalCase(s) == ConcatWords(SplitWords(Trim(s), 1, <<>>, <<>>), 1)

-----------------------------------------------------------------------------
(* The external adapters, by the contract generate relies on *)

\* The vector-root marker generate looks for.
SvgMarker == <<"<", "s", "v", "g">>

\* Width and height attributes of a root element: what the removeDimensions
\* rule of the svgo configuration takes out.
DimAttr == " width=\"24\" height=\"24\""

\* optimize(svgRaw, {multipass, plugins: [..., removeDimensions, ...]}).data
Optimize(raw) == SelectSeq(raw, LAMBDA c : c # DimAttr)

\* transform(svgOptimized, {template: tpl`export default () => (${jsx});`})
Transform(optimized) == <<"export default () => (">> \o optimized \o <<");">>

\* prettier.format(code, {parser}): the formatted text of code.  Prettier's
\* rules are outside the generator; the result is kept as "code, formatted".
Format(code, parser) == [formatted |-> code, parser |-> parser]

\* JSON.stringify(value, null, indent)
JsonStringify(value, indent) == [json |-> value, indent |-> indent]

-----------------------------------------------------------------------------
(* Body extraction and sanitization *)

SvgClose == <<"<", "/", "s", "v", "g", ">">>

\* The least element of a nonempty set of positions.
Least(S) == CHOOSE i \in S : \A j \in S : i <= j

\* Where /<svg[^>]*>([\s\S]*?)<\/svg>/ can match from position p: [^>]*
\* stops at the first ">" after "<svg", and the lazy group at the first
\* "</svg>" after that.
GtAfter(t, p) == {q \in (p + 4)..Len(t) : t[q] = ">"}
CloseAfter(t, q) == {r \in (q + 1)..Len(t) : OccursAt(t, SvgClose, r)}
MatchesAt(t, p) ==
  /\ OccursAt(t, SvgMarker, p)
  /\ GtAfter(t, p) # {}
  /\ CloseAfter(t, Least(GtAfter(t, p))) # {}

\* The group of a greedy pattern: up to the last "</svg>".
MatchGroupGreedy(t) ==
  LET starts == {p \in 1..Len(t) : MatchesAt(t, p)}
  IN  IF starts = {} THEN <<>>
      ELSE LET p == Least(starts)
               q == Least(GtAfter(t, p))
               r == CHOOSE x \in CloseAfter(t, q) : \A y \in CloseAfter(t, q) : y <= x
           IN  SubSeq(t, q + 1, r - 1)

\* jsx.match(/<svg[^>]*>([\s\S]*?)<\/svg>/)?.[1] ?? ""
MatchGroup(t) ==
  LET starts == {p \in 1..Len(t) : MatchesAt(t, p)}
  IN  IF starts = {} THEN <<>>
      ELSE LET p == Least(starts)
               q == Least(GtAfter(t, p))
               r == Least(CloseAfter(t, q))
           IN  SubSeq(t, q + 1, r - 1)

FillOpen == <<"f", "i", "l", "l", "=", "\"">>
StrokeOpen == <<"s", "t", "r", "o", "k", "e", "=", "\"">>

\* s.replaceAll(/<name>="[^"]*"/g, ""), open being <name>=" : scanning from
\* the left, a match runs from open to the first following double quote.
RECURSIVE RemoveAttr(_, _)
RemoveAttr(s, open) ==
  IF s = <<>> THEN <<>>
  ELSE LET quotes == {j \in (Len(open) + 1)..Len(s) : s[j] = "\""}
       IN  IF OccursAt(s, open, 1) /\ quotes # {}
             THEN RemoveAttr(SubSeq(s, Least(quotes) + 1, Len(s)), open)
             ELSE <<s[1]>> \o RemoveAttr(Tail(s), open)

\* const inner = (...match...).replaceAll(fill).replaceAll(stroke)
Inner(t) == RemoveAttr(RemoveAttr(MatchGroup(t), FillOpen), StrokeOpen)

-----------------------------------------------------------------------------
(* Naming, rendering and the batch artifacts *)

SvgExt == <<".", "s", "v", "g">>
TsxExt == <<".", "t", "s", "x">>

\* `${opts.prefix}` without the ?? "": an absent prefix reads "undefined".
PrefixInterpolated(prefix) ==
  IF prefix.defined THEN prefix.value
  ELSE <<"u", "n", "d", "e", "f", "i", "n", "e", "d">>

\* opts.prefix ?? ""
PrefixOrEmpty(prefix) == IF prefix.defined THEN prefix.value ELSE <<>>

\* The prefix and the base name cased apart, then joined.
CompNameCasedApart(o, rel) ==
  pascalCase(IF o.prefix.defined THEN o.prefix.value ELSE <<>>)
    \o pascalCase(Basename(rel, <<".", "s", "v", "g">>))

BaseOf(rel) == Basename(rel, SvgExt)
CompName(o, rel) == pascalCase(PrefixOrEmpty(o.prefix) \o BaseOf(rel))
FileName(rel) == pascalCase(BaseOf(rel))

\* A template that binds strokeWidth to the prop in both modes.
buildComponentAlwaysStrokeWidth(data) ==
  [ componentName |-> data.componentName,
    propsInterface |-> data.componentName \o <<"P", "r", "o", "p", "s">>,
    displayName |-> data.componentName,
    sizeDefault |-> data.defaultSize,
    strokeWidthDefault |-> data.defaultStrokeWidth,
    fill |-> data.fill,
    stroke |-> data.stroke,
    strokeWidthValue |-> "strokeWidth",
    svgBody |-> data.svgBody ]

\* A template with the two defaults in each other's place.
buildComponentDefaultsSwapped(data) ==
  [ componentName |-> data.componentName,
    propsInterface |-> data.componentName \o <<"P", "r", "o", "p", "s">>,
    displayName |-> data.componentName,
    sizeDefault |-> data.defaultStrokeWidth,
    strokeWidthDefault |-> data.defaultSize,
    fill |-> data.fill,
    stroke |-> data.stroke,
    strokeWidthValue |-> IF data.filled THEN "undefined as any" ELSE "strokeWidth",
    svgBody |-> data.svgBody ]

\* buildComponent(data): the fixed template with its holes filled.
buildComponent(data) ==
  [ componentName |-> data.componentName,
    propsInterface |-> data.componentName \o <<"P", "r", "o", "p", "s">>,
    displayName |-> data.componentName,
    sizeDefault |-> data.defaultSize,
    strokeWidthDefault |-> data.defaultStrokeWidth,
    fill |-> data.fill,
    stroke |-> data.stroke,
    strokeWidthValue |-> IF data.filled THEN "undefined as any" ELSE "strokeWidth",
    svgBody |-> data.svgBody ]

\* The component text generate builds for rel from the transformation output.
Tsx(o, rel, t) ==
  buildComponent(
    [ componentName |-> CompName(o, rel),
      svgBody |-> Trim(Inner(t)),
      defaultSize |-> o.defaultSize,
      defaultStrokeWidth |-> o.defaultStrokeWidth,
      fill |-> IF o.filled THEN "currentColor" ELSE "none",
      stroke |-> IF o.filled THEN "none" ELSE "currentColor",
      filled |-> o.filled ])

\* An output layout that keeps the directories of the source-relative path.
OutPathKeepDirs(o, rel) ==
  LET slashes == {i \in 1..Len(rel) : rel[i] = "/"}
      upto == IF slashes = {} THEN 0
              ELSE CHOOSE i \in slashes : \A j \in slashes : j <= i
  IN  PathJoin(o.outDir, SubSeq(rel, 1, upto) \o FileName(rel) \o TsxExt)

\* path.join(opts.outDir, `${fileName}.tsx`)
OutPath(o, rel) == PathJoin(o.outDir, FileName(rel) \o TsxExt)
IndexPath(o) == PathJoin(o.outDir, <<"i", "n", "d", "e", "x", ".", "t", "s">>)
MetadataPath(o) ==
  PathJoin(o.outDir, <<"m", "e", "t", "a", "d", "a", "t", "a", ".", "j", "s", "o", "n">>)

\* The record pushed for rel.
EntryOf(o, rel) ==
  [name |-> CompName(o, rel), file |-> FileName(rel), tags |-> Split(BaseOf(rel), "-")]

\* entries.unshift(e)
PushEntryFront(es, e) == <<e>> \o es

\* entries.push(e)
PushEntry(es, e) == Append(es, e)

\* INDEX_TEMPLATE over {entries}: one export line per entry.
IndexTemplate(es) ==
  [k \in 1..Len(es) |->
     <<"export { default as ">> \o es[k].name \o <<" } from \"./">>
       \o es[k].file \o <<"\";">>]

\* A count of the distinct file identifiers in place of entries.length.
MetadataDocDistinct(es) ==
  [count |-> Cardinality({es[k].file : k \in 1..Len(es)}), icons |-> es]

\* { count: entries.length, icons: entries }
MetadataDoc(es) == [count |-> Len(es), icons |-> es]

\* A write that leaves an existing file as it is.
WriteFileKeepExisting(d, path, data) ==
  IF path \in DOMAIN d THEN d ELSE (path :> data) @@ d

\* fs.appendFile: the data goes after what the file holds.
WriteFileAppend(d, path, data) ==
  IF path \in DOMAIN d
    THEN (path :> [formatted |-> <<d[path], data>>, parser |-> "appended"]) @@ d
    ELSE (path :> data) @@ d

\* fs.writeFile(path, data): creates the file or replaces its content.
WriteFile(d, path, data) == (path :> data) @@ d

-----------------------------------------------------------------------------
(* The worlds a run starts from *)

\* Relative paths the enumerator can return: "a.svg", "a-b.svg",
\* "d/a.svg" (the base name of the first, in a subdirectory) and
\* "A--b.svg" (an uppercase letter and two consecutive hyphens).
PathA == <<"a", ".", "s", "v", "g">>
PathAB == <<"a", "-", "b", ".", "s", "v", "g">>
PathDirA == <<"d", "/", "a", ".", "s", "v", "g">>
PathUpper == <<"A", "-", "-", "b", ".", "s", "v", "g">>
Paths == {PathA, PathAB, PathDirA, PathUpper}

\* File contents: no root marker; an empty root; a root with dimensions and
\* a child carrying a fill attribute.
InvalidDoc == <<"n", "o">>
EmptySvg == SvgMarker \o <<">">> \o SvgClose
FillSvg ==
  SvgMarker \o <<DimAttr, ">", "<", "p", " ">> \o FillOpen
    \o <<"x", "\"", "/", ">">> \o SvgClose
Contents == {InvalidDoc, EmptySvg, FillSvg}

Undefined == [defined |-> FALSE, value |-> <<>>]
Defined(v) == [defined |-> TRUE, value |-> v]
Prefixes == {Undefined, Defined(<<>>), Defined(<<"I", "c", "o", "n">>)}

Range(f) == {f[i] : i \in DOMAIN f}

\* Lists of distinct paths, in any order, of length 0..MaxFiles.
Listings ==
  {l \in UNION {[1..n -> Paths] : n \in 0..MaxFiles} :
     \A i, j \in DOMAIN l : i # j => l[i] # l[j]}

NoFiles == [p \in {} |-> <<>>]
\* The directories above dir that { recursive: true } creates when they are
\* missing; a relative path starts at the working directory.
Ancestors(dir) ==
  CASE dir = "/test/out" -> {"/test"}
    [] dir = "/test/src" -> {"/test"}
    [] dir = "out/icons" -> {"out"}
    [] OTHER -> {}

\* The source directory exists before the run.
SrcTree == {"/test", "/test/src"}

StalePath(o) == PathJoin(o.outDir, <<"O", "l", "d">> \o TsxExt)
StaleFile == [formatted |-> "left by an earlier run", parser |-> "babel-ts"]

-----------------------------------------------------------------------------
(* generate(opts) as a state machine: one action per await or call into an *)
(* adapter, with the synchronous code that follows it.                     *)

VARIABLES
  opts,          \* the options generate was called with
  listing,       \* what globby("**/*.svg", {cwd: srcDir}) returns
  src,           \* the content of each listed source file
  dirs,          \* the directories that exist
  disk,          \* the files of the output directory: path -> content
  pc,            \* where the run is
  files,         \* const files
  idx,           \* position of rel in files (the for-of loop)
  entries,       \* const entries
  svgRaw, svgOptimized, jsx, pretty, indexCode,   \* locals
  console,       \* console.log / console.warn calls, in order
  trace,         \* completed file-system calls, in order
  err,           \* the error the returned promise rejected with
  ret,           \* the value the returned promise resolved with
  prev,          \* what the run before this one left, when there was one
  argv,          \* the command-line options, when started from the CLI
  cli            \* the CLI process: its phase, exit status and error output

vars ==
  <<opts, listing, src, dirs, disk, pc, files, idx, entries, svgRaw,
    svgOptimized, jsx, pretty, indexCode, console, trace, err, ret, prev,
    argv, cli>>

\* What no step of generate changes.
world == <<opts, listing, src, prev, argv, cli>>
locals == <<svgRaw, svgOptimized, jsx, pretty, indexCode>>

None == <<>>

\* No earlier run; a call of generate that does not come from the CLI.
NoRun == [ran |-> FALSE, same |-> TRUE, disk |-> NoFiles, writes |-> <<>>]
NoArgv == [given |-> FALSE]
NotCli == [phase |-> "none", exit |-> 0, stderr |-> None]

\* The entry of a call of generate: nothing done yet.
RunStart ==
  /\ pc = "mkdir"
  /\ files = <<>>
  /\ idx = 0
  /\ entries = <<>>
  /\ svgRaw = None /\ svgOptimized = None /\ jsx = None
  /\ pretty = None /\ indexCode = None
  /\ console = <<>>
  /\ trace = <<>>
  /\ err = None
  /\ ret = None

\* generate called directly with its options, as a library function.
DirectCall == prev = NoRun /\ argv = NoArgv /\ cli = NotCli

Init ==
  /\ opts \in [ srcDir : {"/test/src"}, outDir : {"/test/out"},
                prefix : Prefixes, defaultSize : {24},
                defaultStrokeWidth : {2}, filled : BOOLEAN ]
  /\ listing \in Listings
  /\ src \in [Range(listing) -> Contents]
  /\ \/ dirs = SrcTree /\ disk = NoFiles
     \/ dirs = SrcTree \cup {opts.outDir} /\ disk = (StalePath(opts) :> StaleFile)
  /\ RunStart
  /\ DirectCall

Log(level, msg) == [level |-> level, msg |-> msg]
Call(op, path) == [op |-> op, path |-> path]

\* A run that does not check for an empty enumeration.
NoInputCheckOff(fs) == FALSE

\* files.length === 0
NoInputCheck(fs) == Len(fs) = 0

\* throw new Error(`No SVG files found in ${opts.srcDir}`)
NoInputError(o) == <<"No SVG files found in ", o.srcDir>>

\* A marker check that wants the whole tag "<svg>".
IsInvalidStrict(raw) == ~Includes(raw, SvgMarker \o <<">">>)

\* !svgRaw.includes("<svg")
IsInvalid(raw) == ~Includes(raw, SvgMarker)

\* A run that refuses to build the batch artifacts from no entry.
LoopExitPcNeedsEntries(es) == IF es = <<>> THEN "failed" ELSE "index_format"

\* A loop after which the run waits for something that never comes.
LoopExitPcHang(es) == "hang"

\* Leaving the loop: the code after it builds index.ts, whatever entries holds.
LoopExitPc(es) == "index_format"

\* A loop that is left after the first step, whatever is still to do.
NextPcLeaveEarly(i, n, es) == LoopExitPc(es)

\* for (const rel of files): the next file, or the code after the loop.
NextPc(i, n, es) == IF i <= n THEN "read" ELSE LoopExitPc(es)

\* break in place of continue: a skipped file ends the loop.
SkipPcBreak(i, n, es) == LoopExitPc(es)

\* continue: on to the next file.
SkipPc(i, n, es) == NextPc(i + 1, n, es)

\* The steps that await I/O or call an adapter, each of which can throw.
FileSteps == {"read", "optimize", "transform", "format", "write"}
BatchSteps == {"index_format", "index_write", "meta_write"}
Fallible == {"mkdir", "glob"} \cup FileSteps \cup BatchSteps

\* A loop body in a try/catch that goes on with the next file.
ThrowPcSkipFile(step, i, n, es) ==
  IF step \in FileSteps THEN NextPc(i + 1, n, es) ELSE "failed"

\* generate has no try/catch: a rejected await or a throwing call rejects
\* the promise generate returned.
ThrowPc(step, i, n, es) == "failed"

\* A generate that ends with "return { count: entries.length, icons: entries }".
ReturnValueManifest(es) == Defined(MetadataDoc(es))

\* generate ends without a return statement: its promise resolves with
\* undefined.
ReturnValue(es) == Undefined

\* A run that empties the output directory before it writes.
MkdirEmptied ==
  /\ pc = "mkdir"
  /\ dirs' = dirs \cup Ancestors(opts.outDir) \cup {opts.outDir}
  /\ disk' = NoFiles
  /\ trace' = Append(trace, Call("mkdir", <<opts.outDir>>))
  /\ pc' = "glob"
  /\ UNCHANGED <<world, files, idx, entries, locals, console, err, ret>>

\* await fs.mkdir(opts.outDir, { recursive: true })
Mkdir ==
  /\ pc = "mkdir"
  /\ dirs' = dirs \cup Ancestors(opts.outDir) \cup {opts.outDir}
  /\ trace' = Append(trace, Call("mkdir", <<opts.outDir>>))
  /\ pc' = "glob"
  /\ UNCHANGED <<world, disk, files, idx, entries, locals, console, err, ret>>

\* const files = await globby(...); the empty check; the "Found" line.
Glob ==
  /\ pc = "glob"
  /\ files' = listing
  /\ trace' = Append(trace, Call("glob", <<opts.srcDir>>))
  /\ IF NoInputCheck(listing)
       THEN /\ pc' = "failed"
            /\ err' = NoInputError(opts)
            /\ UNCHANGED <<idx, console>>
       ELSE /\ console' =
                 Append(console,
                        Log("log", <<"Found ", ToString(Len(listing)), " SVG file(s)">>))
            /\ idx' = 1
            /\ pc' = NextPc(1, Len(listing), <<>>)
            /\ err' = err
  /\ UNCHANGED <<world, dirs, disk, entries, locals, ret>>

\* const svgRaw = await fs.readFile(abs, "utf8"); the marker check.
ReadFile ==
  /\ pc = "read"
  /\ LET rel == files[idx]
         raw == src[rel]
     IN  /\ trace' = Append(trace, Call("read", PathJoin(opts.srcDir, rel)))
         /\ IF IsInvalid(raw)
              THEN /\ console' =
                        Append(console, Log("warn", <<"Skipping invalid SVG: ">> \o rel))
                   /\ idx' = idx + 1
                   /\ pc' = SkipPc(idx, Len(files), entries)
                   /\ svgRaw' = None
              ELSE /\ svgRaw' = raw
                   /\ pc' = "optimize"
                   /\ UNCHANGED <<idx, console>>
  /\ UNCHANGED <<world, dirs, disk, files, entries, svgOptimized, jsx, pretty,
                 indexCode, err, ret>>

\* const { data: svgOptimized } = optimize(svgRaw, {...})
OptimizeStep ==
  /\ pc = "optimize"
  /\ svgOptimized' = Optimize(svgRaw)
  /\ pc' = "transform"
  /\ UNCHANGED <<world, dirs, disk, files, idx, entries, svgRaw, jsx, pretty,
                 indexCode, console, trace, err, ret>>

\* const jsx = await transform(svgOptimized, {...})
TransformStep ==
  /\ pc = "transform"
  /\ jsx' = Transform(svgOptimized)
  /\ pc' = "format"
  /\ UNCHANGED <<world, dirs, disk, files, idx, entries, svgRaw, svgOptimized,
                 pretty, indexCode, console, trace, err, ret>>

\* inner, base, compName, fileName, tsx; await prettier.format(tsx, ...)
FormatStep ==
  /\ pc = "format"
  /\ pretty' = Format(Tsx(opts, files[idx], jsx), "babel-ts")
  /\ pc' = "write"
  /\ UNCHANGED <<world, dirs, disk, files, idx, entries, svgRaw, svgOptimized,
                 jsx, indexCode, console, trace, err, ret>>

\* A write that is not awaited: the entry is pushed and the loop goes on
\* before the file is there.
WriteComponentUnawaited ==
  /\ pc = "write"
  /\ LET rel == files[idx]
         es == PushEntry(entries, EntryOf(opts, rel))
     IN  /\ entries' = es
         /\ console' =
              Append(console,
                     Log("log", BaseOf(rel) \o <<" -> ">> \o CompName(opts, rel)))
         /\ idx' = idx + 1
         /\ pc' = NextPc(idx + 1, Len(files), es)
  /\ svgRaw' = None /\ svgOptimized' = None /\ jsx' = None /\ pretty' = None
  /\ UNCHANGED <<world, dirs, disk, trace, files, indexCode, err, ret>>

\* await fs.writeFile(outPath, pretty); entries.push(...); the success line;
\* the end of the loop body.
WriteComponent ==
  /\ pc = "write"
  /\ LET rel == files[idx]
         es == PushEntry(entries, EntryOf(opts, rel))
     IN  /\ disk' = WriteFile(disk, OutPath(opts, rel), pretty)
         /\ trace' = Append(trace, Call("write", OutPath(opts, rel)))
         /\ entries' = es
         /\ console' =
              Append(console,
                     Log("log", BaseOf(rel) \o <<" -> ">> \o CompName(opts, rel)))
         /\ idx' = idx + 1
         /\ pc' = NextPc(idx + 1, Len(files), es)
  /\ svgRaw' = None /\ svgOptimized' = None /\ jsx' = None /\ pretty' = None
  /\ UNCHANGED <<world, dirs, files, indexCode, err, ret>>

\* const indexCode = await prettier.format(indexTpl({ entries }), ...)
FormatIndex ==
  /\ pc = "index_format"
  /\ indexCode' = Format(IndexTemplate(entries), "babel-ts")
  /\ pc' = "index_write"
  /\ UNCHANGED <<world, dirs, disk, files, idx, entries, svgRaw, svgOptimized,
                 jsx, pretty, console, trace, err, ret>>

\* await fs.writeFile(path.join(opts.outDir, "index.ts"), indexCode)
WriteIndex ==
  /\ pc = "index_write"
  /\ disk' = WriteFile(disk, IndexPath(opts), indexCode)
  /\ trace' = Append(trace, Call("write", IndexPath(opts)))
  /\ pc' = "meta_write"
  /\ UNCHANGED <<world, dirs, files, idx, entries, locals, console, err, ret>>

\* await fs.writeFile(".../metadata.json", JSON.stringify(..., null, 2)); the
\* completion line; the function ends without a return statement.
WriteMetadata ==
  /\ pc = "meta_write"
  /\ disk' = WriteFile(disk, MetadataPath(opts),
                       JsonStringify(MetadataDoc(entries), 2))
  /\ trace' = Append(trace, Call("write", MetadataPath(opts)))
  /\ console' =
       Append(console,
              Log("log", <<"Generated index.ts with ", ToString(Len(entries)),
                           " exports">>))
  /\ pc' = "done"
  /\ ret' = ReturnValue(entries)
  /\ UNCHANGED <<world, dirs, files, idx, entries, locals, err>>

\* The pending await or adapter call throws.  Nothing catches it, so the
\* loop position stays where it is (it would move on only if the loop went on).
Throw ==
  /\ pc \in Fallible
  /\ err' = <<"thrown by ", pc>>
  /\ pc' = ThrowPc(pc, idx, Len(files), entries)
  /\ idx' = IF pc' = "failed" THEN idx ELSE idx + 1
  /\ UNCHANGED <<world, dirs, disk, files, entries, locals, console, trace, ret>>

Next ==
  \/ Mkdir
  \/ Glob
  \/ ReadFile
  \/ OptimizeStep
  \/ TransformStep
  \/ FormatStep
  \/ WriteComponent
  \/ FormatIndex
  \/ WriteIndex
  \/ WriteMetadata
  \/ Throw

Spec == Init /\ [][Next]_vars

-----------------------------------------------------------------------------
(* Vocabulary of the properties, stated on the world and on what the run   *)
(* left behind, without the operators the actions are built from.          *)

\* The content has the vector-root marker "<svg".
HasMarker(s) ==
  \E i \in 1..(Len(s) - 3) :
    s[i] = "<" /\ s[i + 1] = "s" /\ s[i + 2] = "v" /\ s[i + 3] = "g"

\* Files wholly handled so far (skipped, or written and recorded).
Handled == IF idx = 0 THEN 0 ELSE idx - 1

ValidAmong(n) == {i \in 1..n : HasMarker(src[files[i]])}
InvalidAmong(n) == {i \in 1..n : ~HasMarker(src[files[i]])}

\* The enumerated files that have the marker, in enumeration order.
ValidFiles == SelectSeq(files, LAMBDA rel : HasMarker(src[rel]))

\* The paths of the completed calls of one kind, in order.
PathsOf(op) ==
  LET calls == SelectSeq(trace, LAMBDA c : c.op = op)
  IN  [k \in 1..Len(calls) |-> calls[k].path]

IsComponentPath(path) ==
  path # IndexPath(opts) /\ path # MetadataPath(opts)
ComponentWrites == SelectSeq(PathsOf("write"), IsComponentPath)

Globbed == \E k \in 1..Len(trace) : trace[k].op = "glob"

Warnings == SelectSeq(console, LAMBDA l : l.level = "warn")

\* The metadata document and the barrel lines on disk after a run.
MetadataOnDisk == disk[MetadataPath(opts)].json
IndexOnDisk == disk[IndexPath(opts)].formatted

-----------------------------------------------------------------------------
(* C1 *)

\* C1: when enumeration returns no files, the run has failed with an error
\* whose message names the configured source directory; the output
\* directory was created first, and the only calls made are that mkdir and
\* the enumeration: no source file was read and no file written.
C1_NoInputFiles ==
  (Globbed /\ files = <<>>) =>
    /\ pc = "failed"
    /\ err = <<"No SVG files found in ", opts.srcDir>>
    /\ opts.outDir \in dirs
    /\ trace = <<Call("mkdir", <<opts.outDir>>), Call("glob", <<opts.srcDir>>)>>
    /\ PathsOf("read") = <<>>
    /\ PathsOf("write") = <<>>
    /\ ret = None

C1_Witness ==
  /\ Globbed
  /\ listing = <<>>
  /\ pc = "failed"
  /\ opts.outDir \in dirs
  /\ disk = NoFiles

-----------------------------------------------------------------------------
(* C2 *)

\* C2: every handled file without the marker "<svg" was skipped with one
\* warning naming its relative path; it caused no component write and no
\* manifest entry (writes and entries number the handled files that have
\* the marker); and the run went on: a finished run has read every
\* enumerated file, in order.
C2_SkipInvalid ==
  idx >= 1 =>
    /\ \A i \in InvalidAmong(Handled) :
         \E k \in 1..Len(console) :
           console[k] = Log("warn", <<"Skipping invalid SVG: ">> \o files[i])
    /\ Len(Warnings) = Cardinality(InvalidAmong(Handled))
    /\ Len(entries) = Cardinality(ValidAmong(Handled))
    /\ Len(ComponentWrites) = Cardinality(ValidAmong(Handled))
    /\ (pc \in BatchSteps \cup {"done"}) =>
         /\ Handled = Len(files)
         /\ PathsOf("read") = [k \in 1..Len(files) |-> PathJoin(opts.srcDir, files[k])]

C2_Witness ==
  /\ pc = "done"
  /\ Len(files) = 2
  /\ ~HasMarker(src[files[1]])
  /\ HasMarker(src[files[2]])
  /\ Len(entries) = 1
  /\ Len(Warnings) = 1

-----------------------------------------------------------------------------
(* C3 *)

\* C3 as claimed: a successful run resolves with the Manifest, the entries
\* accumulated during the run together with a count equal to their number.
C3_ReturnsManifest ==
  pc = "done" =>
    /\ ret.defined
    /\ ret.value.icons = entries
    /\ ret.value.count = Len(entries)

\* C3 as amended: a successful run resolves with no value; the Manifest (the
\* entries accumulated during the run, with a count equal to their number)
\* is what the run persisted as the metadata artifact, with indentation 2.
C3_ManifestPersistedNotReturned ==
  pc = "done" =>
    /\ ~ret.defined
    /\ MetadataPath(opts) \in DOMAIN disk
    /\ disk[MetadataPath(opts)].indent = 2
    /\ MetadataOnDisk.icons = entries
    /\ MetadataOnDisk.count = Len(entries)

C3_Witness ==
  /\ pc = "done"
  /\ Len(entries) = 2
  /\ ret = Undefined
  /\ MetadataOnDisk.count = 2

-----------------------------------------------------------------------------
(* C4 *)

\* C4: a run over a nonempty enumeration in which no call failed made
\* exactly N_valid + 2 writes, N_valid being the number of inputs whose
\* content has "<svg": one component write per such input, then one write
\* of index.ts and one of metadata.json.
C4_WriteCount ==
  pc = "done" =>
    LET nValid == Cardinality(ValidAmong(Len(files)))
        writes == PathsOf("write")
    IN  /\ files # <<>>
        /\ Len(writes) = nValid + 2
        /\ Len(ComponentWrites) = nValid
        /\ writes[nValid + 1] = IndexPath(opts)
        /\ writes[nValid + 2] = MetadataPath(opts)

C4_Witness ==
  /\ pc = "done"
  /\ Len(files) = 2
  /\ src[files[1]] = FillSvg
  /\ src[files[2]] = InvalidDoc
  /\ Len(PathsOf("write")) = 3

-----------------------------------------------------------------------------
(* C5 *)

\* The component files a finished run wrote, as a set of paths.
DistinctComponentFiles == {ComponentWrites[k] : k \in 1..Len(ComponentWrites)}

\* Two entries of the manifest have the same file identifier.
FileIdClash ==
  \E i, j \in 1..Len(entries) : i < j /\ entries[i].file = entries[j].file

\* C5 as claimed: after a successful run the metadata count equals the
\* number of manifest entries, which equals the number of distinct
\* component files the run wrote, also when two inputs derive the same file
\* identifier.
C5_CountEqualsDistinctFiles ==
  pc = "done" =>
    /\ MetadataOnDisk.count = Len(MetadataOnDisk.icons)
    /\ Len(MetadataOnDisk.icons) = Cardinality(DistinctComponentFiles)

\* C5 as amended: after a successful run the metadata count equals the
\* number of manifest entries, which equals the number of component-file
\* writes of the run; the number of distinct component files written equals
\* it exactly when no two entries have the same file identifier, and is
\* smaller otherwise.
C5_CountEqualsComponentWrites ==
  pc = "done" =>
    /\ MetadataOnDisk.count = Len(MetadataOnDisk.icons)
    /\ Len(MetadataOnDisk.icons) = Len(entries)
    /\ Len(entries) = Len(ComponentWrites)
    /\ Cardinality(DistinctComponentFiles) <= Len(entries)
    /\ (Cardinality(DistinctComponentFiles) = Len(entries)) <=> ~FileIdClash

C5_Witness ==
  /\ pc = "done"
  /\ FileIdClash
  /\ MetadataOnDisk.count = 2
  /\ Cardinality(DistinctComponentFiles) = 1

-----------------------------------------------------------------------------
(* C6 *)

\* C6: the manifest holds one record per enumerated file that has the
\* marker, in enumeration order; the metadata icons list is that sequence,
\* and the barrel has one export line per record, in the same order, each
\* binding the record's name to the record's file.
C6_EnumerationOrder ==
  pc = "done" =>
    /\ Len(entries) = Len(ValidFiles)
    /\ \A k \in 1..Len(entries) :
         /\ entries[k].tags = Split(BaseOf(ValidFiles[k]), "-")
         /\ entries[k].file = FileName(ValidFiles[k])
         /\ entries[k].name = CompName(opts, ValidFiles[k])
    /\ MetadataOnDisk.icons = entries
    /\ Len(IndexOnDisk) = Len(entries)
    /\ \A k \in 1..Len(entries) :
         IndexOnDisk[k] =
           <<"export { default as ">> \o entries[k].name \o <<" } from \"./">>
             \o entries[k].file \o <<"\";">>

C6_Witness ==
  /\ pc = "done"
  /\ files = <<PathAB, PathA>>
  /\ Len(entries) = 2
  /\ entries[1].tags = <<<<"a">>, <<"b">>>>
  /\ entries[2].tags = <<<<"a">>>>

-----------------------------------------------------------------------------
(* C7 *)

\* Every enumerated file lacks the marker, and there is at least one.
AllInvalid == files # <<>> /\ ValidAmong(Len(files)) = {}

\* C7: when the enumeration is nonempty and every file was skipped, the
\* code raises no error of its own (a run that failed did so because a call
\* threw), and a finished run wrote a barrel with no export line and a
\* metadata document with count 0 and no icons, and no component file.
C7_AllSkippedSucceeds ==
  AllInvalid =>
    /\ pc = "failed" => (err # None /\ err[1] = "thrown by ")
    /\ pc = "done" =>
         /\ err = None
         /\ IndexOnDisk = <<>>
         /\ MetadataOnDisk.count = 0
         /\ MetadataOnDisk.icons = <<>>
         /\ ComponentWrites = <<>>
         /\ PathsOf("write") = <<IndexPath(opts), MetadataPath(opts)>>

C7_Witness ==
  /\ AllInvalid
  /\ Len(files) = 2
  /\ pc = "done"
  /\ MetadataOnDisk.count = 0
  /\ Len(Warnings) = 2

-----------------------------------------------------------------------------
(* C8 *)

\* The expected component writes of the first n files.
RECURSIVE WritesOfFirst(_)
WritesOfFirst(n) ==
  IF n = 0 THEN <<>>
  ELSE IF HasMarker(src[files[n]])
    THEN Append(WritesOfFirst(n - 1), OutPath(opts, files[n]))
    ELSE WritesOfFirst(n - 1)

\* C8: once a step for the k-th file has thrown (read, optimization,
\* transformation, formatting or component write), the run has failed with
\* that error and stays so: the reads are those of files 1..k, each once (of
\* 1..k-1 when the read itself threw), the writes are the component writes of
\* the earlier files and nothing else (no barrel, no metadata, nothing for
\* file k or later), those earlier component files are still on disk, and
\* the manifest has no entry for file k.
C8_FileFailureAborts ==
  (err # None /\ err[1] = "thrown by " /\ err[2] \in FileSteps) =>
    LET k == idx
        nRead == IF err[2] = "read" THEN k - 1 ELSE k
    IN  /\ pc = "failed"
        /\ ret = None
        /\ PathsOf("read") = [i \in 1..nRead |-> PathJoin(opts.srcDir, files[i])]
        /\ PathsOf("write") = WritesOfFirst(k - 1)
        /\ \A i \in 1..Len(PathsOf("write")) : PathsOf("write")[i] \in DOMAIN disk
        /\ IndexPath(opts) \notin DOMAIN disk
        /\ MetadataPath(opts) \notin DOMAIN disk
        /\ Len(entries) = Cardinality(ValidAmong(k - 1))

C8_Witness ==
  /\ pc = "failed"
  /\ err = <<"thrown by ", "format">>
  /\ idx = 2
  /\ Len(PathsOf("read")) = 2
  /\ Len(PathsOf("write")) = 1
  /\ PathsOf("write")[1] \in DOMAIN disk

-----------------------------------------------------------------------------
(* C9 *)

\* Positions of the enumerated files that have the marker and derive file
\* identifier f.
ValidWithFileId(f) ==
  {i \in ValidAmong(Len(files)) : FileName(files[i]) = f}

\* The component text generate produces for the file at position i.
ComponentOf(i) ==
  Format(Tsx(opts, files[i], Transform(Optimize(src[files[i]]))), "babel-ts")

CountWhere(seq, Test(_)) == Cardinality({k \in 1..Len(seq) : Test(seq[k])})

\* C9: after a successful run, for two distinct enumerated paths that have
\* the marker and derive the same file identifier, the one component file of
\* that identifier holds the text generated from the last of them in
\* enumeration order; the run raised no error and printed no warning about
\* it (warnings are only those of skipped files); and the manifest, the
\* metadata and the barrel each hold one entry per such path.
C9_CollisionLastWins ==
  pc = "done" =>
    \A i, j \in ValidAmong(Len(files)) :
      (i < j /\ FileName(files[i]) = FileName(files[j])) =>
        LET f == FileName(files[i])
            same == ValidWithFileId(f)
            last == CHOOSE m \in same : \A n \in same : n <= m
            path == PathJoin(opts.outDir, f \o TsxExt)
        IN  /\ files[i] # files[j]
            /\ disk[path] = ComponentOf(last)
            /\ err = None
            /\ Len(Warnings) = Cardinality(InvalidAmong(Len(files)))
            /\ CountWhere(entries, LAMBDA e : e.file = f) = Cardinality(same)
            /\ CountWhere(MetadataOnDisk.icons, LAMBDA e : e.file = f)
                 = Cardinality(same)
            /\ Len(IndexOnDisk) = Len(entries)
            /\ Cardinality(same) >= 2

C9_Witness ==
  /\ pc = "done"
  /\ files = <<PathA, PathDirA>>
  /\ src[PathA] = FillSvg
  /\ src[PathDirA] = EmptySvg
  /\ disk[OutPath(opts, PathA)].formatted.svgBody = <<>>
  /\ Len(entries) = 2
  /\ entries[1].file = entries[2].file

-----------------------------------------------------------------------------
(* C10 *)

\* The tokens joined again with hyphens.
RECURSIVE JoinHyphen(_)
JoinHyphen(tokens) ==
  IF Len(tokens) = 0 THEN <<>>
  ELSE IF Len(tokens) = 1 THEN tokens[1]
  ELSE tokens[1] \o <<"-">> \o JoinHyphen(Tail(tokens))

Hyphens(s) == Cardinality({i \in 1..Len(s) : s[i] = "-"})

\* tags is the split of base on the hyphen: hyphen-free tokens, one more than
\* base has hyphens (so empty tokens are kept), which joined give base back.
IsHyphenSplit(tags, base) ==
  /\ Len(tags) = Hyphens(base) + 1
  /\ \A t \in 1..Len(tags) : Hyphens(tags[t]) = 0
  /\ JoinHyphen(tags) = base

AllLower(tags) ==
  \A t \in 1..Len(tags) : \A c \in 1..Len(tags[t]) : ~IsUpper(tags[t][c])

\* C10 as claimed: the tags of every record are the base name split on the
\* hyphen, empty tokens preserved, and every token is lowercase, also when
\* the base name has uppercase letters.
C10_TagsLowercase ==
  \A k \in 1..Len(entries) :
    /\ IsHyphenSplit(entries[k].tags, BaseOf(ValidFiles[k]))
    /\ AllLower(entries[k].tags)

\* C10 as amended: the tags of every record are the base name split on the
\* hyphen, empty tokens preserved, each token with the letter case it has in
\* the base name: the tokens are all lowercase exactly when the base name
\* has no uppercase letter.
C10_TagsSplitCasePreserved ==
  \A k \in 1..Len(entries) :
    LET base == BaseOf(ValidFiles[k])
    IN  /\ IsHyphenSplit(entries[k].tags, base)
        /\ AllLower(entries[k].tags) <=> (\A c \in 1..Len(base) : ~IsUpper(base[c]))

C10_Witness ==
  /\ Len(entries) = 2
  /\ entries[1].tags = <<<<"A">>, <<>>, <<"b">>>>
  /\ entries[2].tags = <<<<"a">>, <<"b">>>>

-----------------------------------------------------------------------------
(* Runs over one file of any short base name *)

\* The longest base name of NameSpec.
MaxNameLen == 3

\* A lowercase letter, an uppercase letter, a separator and a digit.
NameChars == {"a", "B", "-", "1"}
BaseNames == UNION {[1..n -> NameChars] : n \in 1..MaxNameLen}

\* Each base name as a file at the source root and in a subdirectory.
NamePaths ==
  {b \o SvgExt : b \in BaseNames} \cup {<<"d", "/">> \o b \o SvgExt : b \in BaseNames}

NameInit ==
  /\ opts \in [ srcDir : {"/test/src"}, outDir : {"/test/out"},
                prefix : Prefixes, defaultSize : {24},
                defaultStrokeWidth : {2}, filled : {FALSE} ]
  /\ listing \in {<<p>> : p \in NamePaths}
  /\ src = [p \in Range(listing) |-> FillSvg]
  /\ dirs = SrcTree /\ disk = NoFiles
  /\ RunStart
  /\ DirectCall

\* generate over a source directory holding one valid file.
NameSpec == NameInit /\ [][Next]_vars

\* The part of a relative path after its last "/" and before ".svg".
RECURSIVE LastSegment(_)
LastSegment(path) ==
  IF \E i \in 1..Len(path) : path[i] = "/" THEN LastSegment(Tail(path)) ELSE path
StemOf(rel) == SubSeq(LastSegment(rel), 1, Len(LastSegment(rel)) - 4)

\* The configured prefix as text: nothing when it is absent.
PrefixText == IF opts.prefix.defined THEN opts.prefix.value ELSE <<>>

\* The component file a finished run of NameSpec wrote.
WrittenComponent == disk[ComponentWrites[1]].formatted

-----------------------------------------------------------------------------
(* C11 *)

\* C11: the file identifier of every record is the pascal case of the source
\* base name alone, whatever the prefix option is, and so is the name of the
\* component file written; and when the prefix is absent or the empty string
\* the component identifier equals the file identifier.
C11_FileIdIgnoresPrefix ==
  \A k \in 1..Len(entries) :
    /\ entries[k].file = pascalCase(StemOf(ValidFiles[k]))
    /\ ComponentWrites[k] = PathJoin(opts.outDir, pascalCase(StemOf(ValidFiles[k])) \o TsxExt)
    /\ (~opts.prefix.defined \/ opts.prefix.value = <<>>) =>
         entries[k].name = entries[k].file

C11_Witness ==
  /\ Len(entries) = 1
  /\ ~opts.prefix.defined
  /\ files = <<<<"d", "/", "a", "-", "B">> \o SvgExt>>
  /\ entries[1].file = <<"A", "B">>
  /\ entries[1].name = <<"A", "B">>

-----------------------------------------------------------------------------
(* C12 *)

\* C12: the component identifier of every record is the pascal case, taken
\* once, of the prefix followed by the base name (the last path segment
\* without ".svg"); the component text written declares its props interface
\* (<identifier>Props), its component and its display name under that
\* identifier.
C12_PrefixCasedOnce ==
  /\ \A k \in 1..Len(entries) :
       entries[k].name = pascalCase(PrefixText \o StemOf(ValidFiles[k]))
  /\ pc = "done" /\ Len(entries) = 1 =>
       /\ WrittenComponent.componentName = entries[1].name
       /\ WrittenComponent.propsInterface = entries[1].name \o <<"P", "r", "o", "p", "s">>
       /\ WrittenComponent.displayName = entries[1].name

\* A prefix and a base name whose single casing pass differs from casing
\* each apart: "Icon" and "a-B" give "IconaB", not "IconAB".
C12_Witness ==
  /\ pc = "done"
  /\ opts.prefix = Defined(<<"I", "c", "o", "n">>)
  /\ files = <<<<"a", "-", "B">> \o SvgExt>>
  /\ entries[1].name = <<"I", "c", "o", "n", "a", "B">>
  /\ entries[1].name # pascalCase(PrefixText) \o pascalCase(StemOf(files[1]))
  /\ WrittenComponent.componentName = <<"I", "c", "o", "n", "a", "B">>

-----------------------------------------------------------------------------
(* C13 *)

\* A valid identifier: not empty, letters, digits and "_" only, no digit
\* first.
IsIdentifier(s) ==
  /\ s # <<>>
  /\ ~IsDigit(s[1])
  /\ \A i \in 1..Len(s) : IsAlnum(s[i]) \/ s[i] = "_"

\* C13: every record of the manifest has a component identifier and a file
\* identifier that are non-empty valid identifiers, for every base name the
\* enumerator can return, also one made only of separators or of digits.
C13_ValidIdentifiers ==
  \A k \in 1..Len(entries) :
    IsIdentifier(entries[k].name) /\ IsIdentifier(entries[k].file)

-----------------------------------------------------------------------------
(* Runs over one file whose root holds any short body *)

\* The most pieces a body of SanSpec is put together from.
MaxPieces == 5

\* Pieces of attribute text: the two attribute openings, a closing quote,
\* and the opening fill=" cut in two.
Pieces ==
  { FillOpen, StrokeOpen, <<"\"">>, <<"f", "i">>, <<"l", "l", "=", "\"">> }

RECURSIVE Flatten(_)
Flatten(parts) == IF parts = <<>> THEN <<>> ELSE Head(parts) \o Flatten(Tail(parts))

Bodies == {Flatten(parts) : parts \in UNION {[1..n -> Pieces] : n \in 0..MaxPieces}}

SanInit ==
  /\ opts \in [ srcDir : {"/test/src"}, outDir : {"/test/out"},
                prefix : {Undefined}, defaultSize : {24},
                defaultStrokeWidth : {2}, filled : {FALSE} ]
  /\ listing = <<PathA>>
  /\ src \in {[p \in {PathA} |-> SvgMarker \o <<">">> \o b \o SvgClose] : b \in Bodies}
  /\ dirs = SrcTree /\ disk = NoFiles
  /\ RunStart
  /\ DirectCall

\* generate over a source directory holding one file with such a body.
SanSpec == SanInit /\ [][Next]_vars

-----------------------------------------------------------------------------
(* C14 *)

\* s has a substring of the form <name>="...", open being <name>=".
HasAttr(s, open) ==
  \E i \in 1..Len(s) :
    /\ OccursAt(s, open, i)
    /\ \E j \in (i + Len(open))..Len(s) : s[j] = "\""

\* C14: sanitization is total and idempotent: the body embedded in a written
\* component has no substring fill="..." and none stroke="...", and removing
\* the fill and then the stroke attributes from it once more leaves it as it
\* is.
C14_SanitizationTotalIdempotent ==
  \A k \in 1..Len(ComponentWrites) :
    LET body == disk[ComponentWrites[k]].formatted.svgBody
    IN  /\ ~HasAttr(body, FillOpen)
        /\ ~HasAttr(body, StrokeOpen)
        /\ RemoveAttr(RemoveAttr(body, FillOpen), StrokeOpen) = body

-----------------------------------------------------------------------------
(* C15 and C16 *)

\* The component texts the run has written, as they are on disk.
WrittenTexts == {disk[ComponentWrites[k]].formatted : k \in 1..Len(ComponentWrites)}

\* C15: in a filled-mode run every component text written sets the root fill
\* to currentColor and the root stroke to none, and binds the root
\* strokeWidth attribute to an undefined value, not to the strokeWidth prop.
C15_FilledMode ==
  opts.filled =>
    \A t \in WrittenTexts :
      /\ t.fill = "currentColor"
      /\ t.stroke = "none"
      /\ t.strokeWidthValue = "undefined as any"
      /\ t.strokeWidthValue # "strokeWidth"

C15_Witness ==
  /\ opts.filled
  /\ pc = "done"
  /\ Cardinality(WrittenTexts) = 2
  /\ \A t \in WrittenTexts : t.fill = "currentColor"

\* C16: in an unfilled-mode run every component text written sets the root
\* fill to none and the root stroke to currentColor, binds the root
\* strokeWidth attribute to the strokeWidth prop, and gives the size and
\* strokeWidth props the configured default size and default stroke width as
\* their defaults.
C16_UnfilledMode ==
  ~opts.filled =>
    \A t \in WrittenTexts :
      /\ t.fill = "none"
      /\ t.stroke = "currentColor"
      /\ t.strokeWidthValue = "strokeWidth"
      /\ t.sizeDefault = opts.defaultSize
      /\ t.strokeWidthDefault = opts.defaultStrokeWidth

C16_Witness ==
  /\ ~opts.filled
  /\ pc = "done"
  /\ Cardinality(WrittenTexts) = 2
  /\ \A t \in WrittenTexts : t.stroke = "currentColor" /\ t.sizeDefault = 24

-----------------------------------------------------------------------------
(* A second run over the output directory the first one left *)

\* The state a new call of generate starts in, primed.
RunStartNext ==
  /\ pc' = "mkdir"
  /\ files' = <<>>
  /\ idx' = 0
  /\ entries' = <<>>
  /\ svgRaw' = None /\ svgOptimized' = None /\ jsx' = None
  /\ pretty' = None /\ indexCode' = None
  /\ console' = <<>>
  /\ trace' = <<>>
  /\ err' = None
  /\ ret' = None

\* What a finished run leaves for the next to find.
Left(same) ==
  [ran |-> TRUE, same |-> same, disk |-> disk, writes |-> PathsOf("write")]

\* listing without its i-th file.
Without(l, i) == SubSeq(l, 1, i - 1) \o SubSeq(l, i + 1, Len(l))

\* generate is called again with the same options, over the same source
\* directory and the output directory as the first run left it.
Rerun ==
  /\ pc = "done"
  /\ ~prev.ran
  /\ prev' = Left(TRUE)
  /\ RunStartNext
  /\ UNCHANGED <<opts, listing, src, dirs, disk, argv, cli>>

\* A source file is removed, and generate is called again.
RerunAfterRemoval ==
  /\ pc = "done"
  /\ ~prev.ran
  /\ \E i \in 1..Len(listing) :
       /\ listing' = Without(listing, i)
       /\ src' = [p \in Range(Without(listing, i)) |-> src[p]]
  /\ prev' = Left(FALSE)
  /\ RunStartNext
  /\ UNCHANGED <<opts, dirs, disk, argv, cli>>

RerunInit ==
  /\ opts \in [ srcDir : {"/test/src"}, outDir : {"/test/out"},
                prefix : {Undefined}, defaultSize : {24},
                defaultStrokeWidth : {2}, filled : {FALSE} ]
  /\ listing \in Listings
  /\ src \in [Range(listing) -> Contents]
  /\ dirs = SrcTree /\ disk = NoFiles
  /\ RunStart
  /\ DirectCall

RerunNext == Next \/ Rerun \/ RerunAfterRemoval

RerunSpec == RerunInit /\ [][RerunNext]_vars

-----------------------------------------------------------------------------
(* C17 *)

\* C17: a second run with the same options, enumeration and source contents
\* writes the same paths as the first, and leaves the output directory with
\* exactly the files and contents the first run left.
C17_Deterministic ==
  (prev.ran /\ prev.same /\ pc = "done") =>
    /\ PathsOf("write") = prev.writes
    /\ DOMAIN disk = DOMAIN prev.disk
    /\ \A p \in DOMAIN disk : disk[p] = prev.disk[p]

C17_Witness ==
  /\ prev.ran /\ prev.same
  /\ pc = "done"
  /\ Len(prev.writes) = 4
  /\ PathsOf("write") = prev.writes

-----------------------------------------------------------------------------
(* C18 *)

\* The component files in the output directory, and those the current
\* source files give.
ComponentFilesOnDisk == {p \in DOMAIN disk : IsComponentPath(p)}
CurrentComponentFiles == {OutPath(opts, files[i]) : i \in ValidAmong(Len(files))}

\* C18 as claimed: after a successful run the component files in the output
\* directory are exactly those generated from the current source files,
\* whatever earlier runs wrote there.
C18_OnlyCurrentComponents ==
  pc = "done" => ComponentFilesOnDisk = CurrentComponentFiles

\* C18 as amended: after a successful run every component file the current
\* source files give is in the output directory, with the text generated in
\* this run; the files an earlier run left at paths this run did not write
\* are still there, unchanged, also the component file of a source file that
\* has since been removed: the output directory holds what the earlier run
\* left and what this run wrote, nothing is deleted.
C18_NothingDeleted ==
  pc = "done" =>
    LET written == {PathsOf("write")[k] : k \in 1..Len(PathsOf("write"))}
    IN  /\ CurrentComponentFiles \subseteq ComponentFilesOnDisk
        /\ \A i \in ValidAmong(Len(files)) :
             \E j \in ValidWithFileId(FileName(files[i])) :
               disk[OutPath(opts, files[i])] = ComponentOf(j)
        /\ prev.ran =>
             /\ DOMAIN disk = DOMAIN prev.disk \cup written
             /\ \A p \in DOMAIN prev.disk \ written : disk[p] = prev.disk[p]

\* The second run is over, and a component file of the first run, whose
\* source file was removed, is still in the output directory.
C18_Witness ==
  /\ pc = "done"
  /\ prev.ran /\ ~prev.same
  /\ \E p \in ComponentFilesOnDisk \ CurrentComponentFiles :
       disk[p] = prev.disk[p]

-----------------------------------------------------------------------------
(* C19: runs into an output root whose parent may be missing *)

FlatInit ==
  /\ opts \in [ srcDir : {"/test/src"}, outDir : {"/test/out", "out/icons"},
                prefix : {Undefined}, defaultSize : {24},
                defaultStrokeWidth : {2}, filled : {FALSE} ]
  /\ listing \in Listings
  /\ src \in [Range(listing) -> Contents]
  /\ dirs = SrcTree /\ disk = NoFiles
  /\ RunStart
  /\ DirectCall

FlatSpec == FlatInit /\ [][Next]_vars

\* path is outDir, a separator, and a name without a separator.
IsDirectChild(path) ==
  /\ Len(path) >= 3
  /\ path[1] = opts.outDir
  /\ path[2] = "/"
  /\ \A i \in 3..Len(path) : path[i] # "/"

\* The writes so far are flat: every written path is a direct child of the
\* output root, the k-th component is at <outDir>/<fileIdentifier>.tsx of
\* the k-th valid source file, and the two last writes of a finished run
\* are <outDir>/index.ts and <outDir>/metadata.json.
FlatWrites ==
  LET writes == PathsOf("write")
  IN  /\ \A k \in 1..Len(writes) : IsDirectChild(writes[k])
      /\ \A p \in DOMAIN disk : IsDirectChild(p)
      /\ \A k \in 1..Len(ComponentWrites) :
           ComponentWrites[k] =
             <<opts.outDir, "/">> \o FileName(ValidFiles[k]) \o <<".", "t", "s", "x">>
      /\ pc = "done" =>
           /\ writes[Len(writes) - 1] =
                <<opts.outDir, "/", "i", "n", "d", "e", "x", ".", "t", "s">>
           /\ writes[Len(writes)] =
                <<opts.outDir, "/", "m", "e", "t", "a", "d", "a", "t", "a",
                  ".", "j", "s", "o", "n">>

\* The directories the run has created.
CreatedDirs == dirs \ SrcTree

\* C19 as claimed: every written file is a direct child of the output root,
\* at the paths named, and the run creates or writes nothing outside the
\* output root.
C19_NothingOutsideRoot ==
  /\ FlatWrites
  /\ CreatedDirs \subseteq {opts.outDir}

\* C19 as amended: every written file is a direct child of the output root,
\* at the paths named, with no directory of the source-relative path kept;
\* the run writes no file outside the output root, and the only things it
\* creates outside it are the missing directories above the output root.
C19_FlatOutput ==
  /\ FlatWrites
  /\ CreatedDirs \subseteq {opts.outDir} \cup Ancestors(opts.outDir)
  /\ \A k \in 1..Len(trace) :
       trace[k].op = "mkdir" => trace[k].path = <<opts.outDir>>

\* A finished run over a source file in a subdirectory, into an output root
\* whose parent did not exist.
C19_Witness ==
  /\ pc = "done"
  /\ \E k \in 1..Len(ValidFiles) : "/" \in Range(ValidFiles[k])
  /\ Ancestors(opts.outDir) \cap CreatedDirs # {}
  /\ Len(ComponentWrites) = Len(ValidFiles)

-----------------------------------------------------------------------------
(* The command line: bin/cli.ts around generate *)

\* Number(text) for unsigned decimal text: the empty text is 0, digits with
\* at most one point are their value, anything else is NaN.  The value is
\* kept as its whole part and the digits after the point, without trailing
\* zeros.
NaN == [nan |-> TRUE, whole |-> 0, frac |-> <<>>]

DigitValue(c) == CHOOSE d \in 0..9 : ToString(d) = c

RECURSIVE WholeOf(_)
WholeOf(s) ==
  IF s = <<>> THEN 0
  ELSE 10 * WholeOf(SubSeq(s, 1, Len(s) - 1)) + DigitValue(s[Len(s)])

RECURSIVE DropTrailingZeros(_)
DropTrailingZeros(s) ==
  IF s # <<>> /\ s[Len(s)] = "0"
    THEN DropTrailingZeros(SubSeq(s, 1, Len(s) - 1))
    ELSE s

Number(text) ==
  LET points == {i \in 1..Len(text) : text[i] = "."}
      digits == {i \in 1..Len(text) : IsDigit(text[i])}
  IN  IF text = <<>> THEN [nan |-> FALSE, whole |-> 0, frac |-> <<>>]
      ELSE IF points \cup digits # 1..Len(text) \/ digits = {}
                \/ Cardinality(points) > 1
        THEN NaN
      ELSE IF points = {}
        THEN [nan |-> FALSE, whole |-> WholeOf(text), frac |-> <<>>]
      ELSE LET at == CHOOSE i \in points : TRUE
           IN  [nan |-> FALSE,
                whole |-> WholeOf(SubSeq(text, 1, at - 1)),
                frac |-> DropTrailingZeros(SubSeq(text, at + 1, Len(text)))]

\* path.resolve(cwd, p): an absolute path is itself, a relative one is
\* under the working directory.
Resolve(p) ==
  CASE p = "icons-src" -> "/cwd/icons-src"
    [] p = "icons" -> "/cwd/icons"
    [] OTHER -> p

\* The argument of generate, from the parsed options.
CliOpts(a) ==
  [ srcDir |-> Resolve(a.src),
    outDir |-> Resolve(a.out),
    prefix |-> Defined(a.prefix),
    defaultSize |-> Number(a.size),
    defaultStrokeWidth |-> Number(a.stroke),
    filled |-> a.fill ]

\* Before the action runs there is no argument of generate yet.
NoOpts ==
  [ srcDir |-> "", outDir |-> "", prefix |-> Undefined, defaultSize |-> NaN,
    defaultStrokeWidth |-> NaN, filled |-> FALSE ]

\* A command line that ends with status 0 whatever happened.
ExitStatusAlwaysZero(failed) == 0

\* process.exit(1) in the catch block; a process that ends on its own ends
\* with status 0.
ExitStatus(failed) == IF failed THEN 1 ELSE 0

\* The texts given for --size: digits, or letters.
SizeTexts == {<<"2", "4">>, <<"x">>, <<"0">>}

CliInit ==
  /\ argv \in [ given : {TRUE}, src : {"/test/src"}, out : {"icons"},
                prefix : {<<>>}, size : SizeTexts,
                stroke : {<<"1", ".", "5">>}, fill : BOOLEAN ]
  /\ cli = [phase |-> "start", exit |-> 0, stderr |-> None]
  /\ opts = NoOpts
  /\ listing \in Listings
  /\ src \in [Range(listing) -> Contents]
  /\ dirs = SrcTree /\ disk = NoFiles
  /\ prev = NoRun
  /\ pc = "cli"
  /\ files = <<>> /\ idx = 0 /\ entries = <<>>
  /\ svgRaw = None /\ svgOptimized = None /\ jsx = None
  /\ pretty = None /\ indexCode = None
  /\ console = <<>> /\ trace = <<>>
  /\ err = None /\ ret = None

\* The three lines logged, and the call of generate.
CliStart ==
  /\ cli.phase = "start"
  /\ console' = console \o
       << Log("log", <<"Generating icons...">>),
          Log("log", <<"   Source: ", Resolve(argv.src)>>),
          Log("log", <<"   Output: ", Resolve(argv.out), "\n">>) >>
  /\ opts' = CliOpts(argv)
  /\ pc' = "mkdir"
  /\ cli' = [cli EXCEPT !.phase = "running"]
  /\ UNCHANGED <<listing, src, prev, argv, dirs, disk, files, idx, entries,
                 locals, trace, err, ret>>

\* generate resolved: the closing line, and the process ends on its own.
CliEnd ==
  /\ cli.phase = "running"
  /\ pc = "done"
  /\ console' = Append(console,
       Log("log", <<"\nGenerated icons from ", opts.srcDir, " -> ", opts.outDir>>))
  /\ cli' = [phase |-> "exited", exit |-> ExitStatus(FALSE), stderr |-> None]
  /\ UNCHANGED <<opts, listing, src, prev, argv, dirs, disk, pc, files, idx,
                 entries, locals, trace, err, ret>>

\* generate rejected: the catch block.
CliCatch ==
  /\ cli.phase = "running"
  /\ pc = "failed"
  /\ cli' = [phase |-> "exited", exit |-> ExitStatus(TRUE),
             stderr |-> <<"\nError:", err>>]
  /\ UNCHANGED <<opts, listing, src, prev, argv, dirs, disk, pc, files, idx,
                 entries, locals, console, trace, err, ret>>

CliNext == Next \/ CliStart \/ CliEnd \/ CliCatch

CliSpec == CliInit /\ [][CliNext]_vars

-----------------------------------------------------------------------------
(* C20 *)

\* C20: when the command line has ended, a rejected generate (no input
\* files, a failed adapter, a failed file operation) gave a nonzero exit
\* status with the error's message printed on the error stream, and a
\* resolved generate, also one that skipped files with warnings, gave the
\* status 0 with nothing on the error stream; the command line ends in no
\* other way.
C20_ExitStatus ==
  cli.phase = "exited" =>
    /\ pc \in {"done", "failed"}
    /\ pc = "failed" =>
         /\ cli.exit # 0
         /\ err # None
         /\ cli.stderr = <<"\nError:", err>>
    /\ pc = "done" =>
         /\ cli.exit = 0
         /\ cli.stderr = None
         /\ err = None

\* The command line ended with status 0 after a run that skipped a file
\* with a warning.
C20_Witness ==
  /\ cli.phase = "exited"
  /\ pc = "done"
  /\ cli.exit = 0
  /\ Warnings # <<>>

-----------------------------------------------------------------------------
(* C21 *)

\* A number that is not NaN and is greater than zero.  (Number gives no
\* infinite value for the texts of SizeTexts.)
IsFinitePositive(n) ==
  /\ ~n.nan
  /\ n.whole > 0 \/ n.frac # <<>>

\* C21: from the command line, every component text written has a default
\* size and a default stroke width that are finite positive numbers,
\* whatever text was given for --size and --stroke.
C21_FinitePositiveDefaults ==
  cli.phase # "start" =>
    \A t \in WrittenTexts :
      /\ IsFinitePositive(t.sizeDefault)
      /\ IsFinitePositive(t.strokeWidthDefault)

-----------------------------------------------------------------------------
(* C22 *)

\* The number of reads completed before the k-th call.
ReadsBefore(k) == Cardinality({j \in 1..(k - 1) : trace[j].op = "read"})

\* The k-th call is the component write of the i-th enumerated file.
IsWriteOf(k, i) ==
  /\ k \in 1..Len(trace)
  /\ i \in 1..Len(files)
  /\ trace[k].op = "write"
  /\ trace[k].path = <<opts.outDir, "/">> \o FileName(files[i]) \o <<".", "t", "s", "x">>

\* C22: in every state of a run the calls made so far are in this order:
\* the directory creation first and the enumeration second, before any
\* read; the reads are of the enumerated files in order, one at a time; a
\* component write comes right after the read of its own file, which has
\* the marker, and the next read comes only after it (or right after the
\* read of a skipped file); the barrel write comes after the last file was
\* read and, if it has the marker, written; the metadata write comes right
\* after the barrel write.
C22_SideEffectOrder ==
  \A k \in 1..Len(trace) :
    LET i == ReadsBefore(k)
    IN  /\ trace[k].op = "mkdir" <=> k = 1
        /\ trace[k].op = "glob" <=> k = 2
        /\ trace[k].op = "read" =>
             /\ i + 1 <= Len(files)
             /\ trace[k].path = <<opts.srcDir, "/">> \o files[i + 1]
             /\ IF i = 0 THEN trace[k - 1].op = "glob"
                ELSE IF HasMarker(src[files[i]]) THEN IsWriteOf(k - 1, i)
                ELSE trace[k - 1].op = "read"
        /\ trace[k].op = "write" =>
             IF trace[k].path = MetadataPath(opts)
               THEN trace[k - 1].op = "write" /\ trace[k - 1].path = IndexPath(opts)
             ELSE IF trace[k].path = IndexPath(opts)
               THEN /\ i = Len(files)
                    /\ IF HasMarker(src[files[i]]) THEN IsWriteOf(k - 1, i)
                       ELSE trace[k - 1].op = "read"
             ELSE /\ i >= 1
                  /\ HasMarker(src[files[i]])
                  /\ trace[k - 1].op = "read"
                  /\ IsWriteOf(k, i)

\* A finished run over two files that have the marker: eight calls.
C22_Witness ==
  /\ pc = "done"
  /\ Len(files) = 2
  /\ [k \in 1..Len(trace) |-> trace[k].op] =
       <<"mkdir", "glob", "read", "write", "read", "write", "write", "write">>

-----------------------------------------------------------------------------
(* C23: runs over one file whose content is put together from tag pieces *)

FillAttr == FillOpen \o <<"x", "\"">>

DocPieces == { SvgMarker, <<">">>, SvgClose, <<" ">>, <<"x">>, FillAttr }

\* Contents that have the marker: "<svg" and up to MaxDocPieces pieces.
MaxDocPieces == 4
Docs ==
  {SvgMarker \o Flatten(parts) :
     parts \in UNION {[1..n -> DocPieces] : n \in 0..MaxDocPieces}}

BodyInit ==
  /\ opts \in [ srcDir : {"/test/src"}, outDir : {"/test/out"},
                prefix : {Undefined}, defaultSize : {24},
                defaultStrokeWidth : {2}, filled : {FALSE} ]
  /\ listing = <<PathA>>
  /\ src \in [{PathA} -> Docs]
  /\ dirs = SrcTree /\ disk = NoFiles
  /\ RunStart
  /\ DirectCall

BodySpec == BodyInit /\ [][Next]_vars

\* The first position from `from` on where pat occurs in t, if there is one.
FirstAt(t, pat, from) ==
  {p \in from..Len(t) :
     /\ OccursAt(t, pat, p)
     /\ \A j \in from..(p - 1) : ~OccursAt(t, pat, j)}

\* The text strictly between the end of the first opening <svg ...> tag and
\* the first following </svg>, if t has both.
RawBodies(t) ==
  UNION { UNION { {SubSeq(t, q + 1, r - 1) : r \in FirstAt(t, SvgClose, q + 1)}
                  : q \in FirstAt(t, <<">">>, p + 4) }
          : p \in FirstAt(t, SvgMarker, 1) }

\* C23: every component written embeds the raw body of the transformation
\* output of its file, the text strictly between the end of the first
\* opening <svg ...> tag and the first following </svg> (the empty text when
\* the output has no such pair), with the fill and stroke attributes removed
\* and whitespace trimmed at both ends; every file that has the marker, also
\* one with an empty root, gets its component written and recorded.
C23_BodyExtraction ==
  /\ \A k \in 1..Len(ComponentWrites) :
       LET t == Transform(Optimize(src[ValidFiles[k]]))
           raws == IF RawBodies(t) = {} THEN {<<>>} ELSE RawBodies(t)
           body == disk[ComponentWrites[k]].formatted.svgBody
       IN  /\ body \in {Trim(RemoveAttr(RemoveAttr(raw, FillOpen), StrokeOpen)) : raw \in raws}
           /\ body = <<>> \/ (body[1] # " " /\ body[Len(body)] # " ")
  /\ pc = "done" =>
       /\ Len(ComponentWrites) = Len(ValidFiles)
       /\ Len(entries) = Len(ValidFiles)

\* A finished run over an empty root: the body is empty, the component is
\* written and recorded.
C23_Witness ==
  /\ pc = "done"
  /\ src[PathA] = SvgMarker \o <<">">> \o SvgClose
  /\ RawBodies(Transform(Optimize(src[PathA]))) = {<<>>}
  /\ Len(ComponentWrites) = 1
  /\ disk[ComponentWrites[1]].formatted.svgBody = <<>>
  /\ Len(entries) = 1

-----------------------------------------------------------------------------
(* C24 *)

\* C24: in every state of a run the manifest has no more entries than
\* component writes completed in this run, the k-th entry is that of the
\* k-th completed component write, whose file is on disk; and when a
\* component write failed, the manifest has the entries of the earlier
\* files only, none for the file whose write failed.
C24_EntryAfterWrite ==
  /\ Len(entries) <= Len(ComponentWrites)
  /\ \A k \in 1..Len(entries) :
       /\ ComponentWrites[k] =
            <<opts.outDir, "/">> \o entries[k].file \o <<".", "t", "s", "x">>
       /\ ComponentWrites[k] \in DOMAIN disk
  /\ err = <<"thrown by ", "write">> =>
       /\ pc = "failed"
       /\ Len(entries) = Cardinality(ValidAmong(idx - 1))
       /\ Len(ComponentWrites) = Len(entries)

\* The write of the second file failed: the manifest has the first file's
\* entry only.
C24_Witness ==
  /\ pc = "failed"
  /\ err = <<"thrown by ", "write">>
  /\ idx = 2
  /\ Len(entries) = 1
  /\ Len(ComponentWrites) = 1

-----------------------------------------------------------------------------
(* C25: runs in which every call returns *)

TerminationInit ==
  /\ opts \in [ srcDir : {"/test/src"}, outDir : {"/test/out"},
                prefix : {Undefined}, defaultSize : {24},
                defaultStrokeWidth : {2}, filled : {FALSE} ]
  /\ listing \in Listings
  /\ src \in [Range(listing) -> Contents]
  /\ dirs = SrcTree /\ disk = NoFiles
  /\ RunStart
  /\ DirectCall

\* The awaited call returns, with an error or with a value.
Returns == Throw \/ Next

\* Every awaited call returns: a step of the run that can be taken is
\* eventually taken.
TerminationSpec == TerminationInit /\ [][Next]_vars /\ WF_vars(Returns)

\* The positions of the calls that read the i-th enumerated file.
ReadsOf(i) ==
  {k \in 1..Len(trace) :
     trace[k] = Call("read", <<opts.srcDir, "/">> \o files[i])}

\* Every enumerated file was read exactly once, and handled exactly once:
\* a file without the marker got one warning and no write, a file with the
\* marker no warning and the component write right after its read; there
\* are as many entries as files with the marker.
ReadOnceHandledOnce ==
  /\ \A i \in 1..Len(files) :
       /\ Cardinality(ReadsOf(i)) = 1
       /\ LET k == CHOOSE x \in ReadsOf(i) : TRUE
              warned == {w \in 1..Len(Warnings) :
                           Warnings[w].msg = <<"Skipping invalid SVG: ">> \o files[i]}
          IN  IF HasMarker(src[files[i]])
                THEN warned = {} /\ IsWriteOf(k + 1, i)
                ELSE Cardinality(warned) = 1 /\ ~IsWriteOf(k + 1, i)
  /\ Len(PathsOf("read")) = Len(files)
  /\ Len(entries) = Len(ValidFiles)
  /\ Len(ComponentWrites) = Len(ValidFiles)

\* C25: when every call returns, a run over any enumerated list eventually
\* finishes, resolved or rejected; and a resolved run has read every
\* enumerated file exactly once and handled it exactly once, skipped or
\* written and recorded.
C25_Terminates ==
  /\ <>(pc \in {"done", "failed"})
  /\ [](pc = "done" => ReadOnceHandledOnce)

\* A resolved run over two files, one skipped and one written.
C25_Witness ==
  /\ pc = "done"
  /\ Len(files) = 2
  /\ Len(Warnings) = 1
  /\ Len(entries) = 1
  /\ ReadOnceHandledOnce

====
